---------------------------- MODULE Spec2Model ----------------------------
(***************************************************************************)
(* Court booking client (WeeklyScheduler + BookingDialog) against the      *)
(* hosted store (tables court_schedules, bookings).                         *)
(*                                                                         *)
(* Text values that the code compares or slices ("HH:mm", "HH:mm:ss") are  *)
(* sequences of character codes ("0" = 48 .. "9" = 57, ":" = 58), so that  *)
(* formatting, parsing and the string comparison `<` of JavaScript are     *)
(* computed, not assumed.  Identifiers (court ids, schedule ids, case      *)
(* numbers) are only compared for equality and are TLA+ strings; the empty *)
(* JavaScript string is "" for those and << >> for time texts.             *)
(***************************************************************************)
EXTENDS Integers, Sequences, FiniteSets, TLC

-----------------------------------------------------------------------------
(* Bounds of the model (not program constants).                            *)

\* the user clicks one of the first MaxClickSlot slots of a day, or the last
MaxClickSlot == 2
\* the user picks one of the first MaxEndChoice entries of the end-time list
MaxEndChoice == 2
\* rows ever inserted into bookings (ids are never reused)
MaxCreates == 2

\* the displayed week is one of the weeks 0..MaxWeek after the current one
MaxWeek == 1

\* at most this many reads of one page of a client are in flight when a button that
\* starts another one is pressed
MaxInFlight == 2

\* rows ever inserted into court_schedules by the admin area (ids are never reused)
MaxSchedules == 2

-----------------------------------------------------------------------------
(* Text helpers.                                                           *)

\* String(n).padStart(2, "0") for 0 <= n <= 99
pad2(n) == << 48 + (n \div 10), 48 + (n % 10) >>

\* Number("dd") for a two-character text of digits
Number2(s) == (s[1] - 48) * 10 + (s[2] - 48)

\* `${pad2(hour)}:${pad2(minute)}`
TimeText(hour, minute) == pad2(hour) \o << 58 >> \o pad2(minute)

\* text + ":00"
WithSeconds(text) == text \o << 58, 48, 48 >>

\* text.substring(0, 5)
Substring5(text) == SubSeq(text, 1, IF Len(text) < 5 THEN Len(text) ELSE 5)

\* text.startsWith(prefix)
StartsWith(text, prefix) ==
    /\ Len(prefix) <= Len(text)
    /\ SubSeq(text, 1, Len(prefix)) = prefix

\* JavaScript's a < b on strings: code unit by code unit, a proper prefix is less
RECURSIVE StrLess(_, _)
StrLess(a, b) ==
    IF b = << >> THEN FALSE
    ELSE IF a = << >> THEN TRUE
    ELSE IF a[1] # b[1] THEN a[1] < b[1]
    ELSE StrLess(Tail(a), Tail(b))


-----------------------------------------------------------------------------
(* Calendar grid: the slots of a day.                                      *)

\* the body of the two nested loops that fill timeSlots, one inner iteration per call
RECURSIVE TimeSlotsLoop(_, _, _)
TimeSlotsLoop(hour, minute, acc) ==
    IF hour > 16 THEN acc
    ELSE IF minute >= 60 THEN TimeSlotsLoop(hour + 1, 0, acc)
    ELSE IF hour = 16 /\ minute > 0 THEN TimeSlotsLoop(hour + 1, 0, acc)  \* break
    ELSE TimeSlotsLoop(hour, minute + 15,
             Append(acc, [time |-> TimeText(hour, minute), hour |-> hour, minute |-> minute]))

\* the same loops without the break at 16:00
RECURSIVE TimeSlotsLoopNoBreak(_, _, _)
TimeSlotsLoopNoBreak(hour, minute, acc) ==
    IF hour > 16 THEN acc
    ELSE IF minute >= 60 THEN TimeSlotsLoopNoBreak(hour + 1, 0, acc)
    ELSE TimeSlotsLoopNoBreak(hour, minute + 15,
             Append(acc, [time |-> TimeText(hour, minute), hour |-> hour, minute |-> minute]))

timeSlotsNoBreak == TimeSlotsLoopNoBreak(9, 0, << >>)

timeSlots == TimeSlotsLoop(9, 0, << >>)

\* the texts of the slots, in order
SlotTimes == [i \in 1..Len(timeSlots) |-> timeSlots[i].time]

-----------------------------------------------------------------------------
(* BookingDialog: the end times offered for a start time.                  *)

RECURSIVE EndTimeLoop(_, _, _, _, _)
EndTimeLoop(hour, minute, startHour, startMinute, options) ==
    IF hour > 16 THEN options
    ELSE IF minute >= 60 THEN EndTimeLoop(hour + 1, 0, startHour, startMinute, options)
    ELSE IF hour = startHour /\ minute <= startMinute
         THEN EndTimeLoop(hour, minute + 15, startHour, startMinute, options)  \* continue
    ELSE IF hour = 16 /\ minute > 0
         THEN EndTimeLoop(hour + 1, 0, startHour, startMinute, options)        \* break
    ELSE EndTimeLoop(hour, minute + 15, startHour, startMinute,
                     Append(options, TimeText(hour, minute)))

\* the loop with `minute < startMinute` in place of `minute <= startMinute`
RECURSIVE EndTimeLoopFromStart(_, _, _, _, _)
EndTimeLoopFromStart(hour, minute, startHour, startMinute, options) ==
    IF hour > 16 THEN options
    ELSE IF minute >= 60 THEN EndTimeLoopFromStart(hour + 1, 0, startHour, startMinute, options)
    ELSE IF hour = startHour /\ minute < startMinute
         THEN EndTimeLoopFromStart(hour, minute + 15, startHour, startMinute, options)
    ELSE IF hour = 16 /\ minute > 0
         THEN EndTimeLoopFromStart(hour + 1, 0, startHour, startMinute, options)
    ELSE EndTimeLoopFromStart(hour, minute + 15, startHour, startMinute,
                     Append(options, TimeText(hour, minute)))

\* the loop with `minute += 10` in place of `minute += 15`
RECURSIVE EndTimeLoopStep10(_, _, _, _, _)
EndTimeLoopStep10(hour, minute, startHour, startMinute, options) ==
    IF hour > 16 THEN options
    ELSE IF minute >= 60 THEN EndTimeLoopStep10(hour + 1, 0, startHour, startMinute, options)
    ELSE IF hour = startHour /\ minute <= startMinute
         THEN EndTimeLoopStep10(hour, minute + 10, startHour, startMinute, options)
    ELSE IF hour = 16 /\ minute > 0
         THEN EndTimeLoopStep10(hour + 1, 0, startHour, startMinute, options)
    ELSE EndTimeLoopStep10(hour, minute + 10, startHour, startMinute,
                     Append(options, TimeText(hour, minute)))

\* the loop without the break at 16:00
RECURSIVE EndTimeLoopNoBreak(_, _, _, _, _)
EndTimeLoopNoBreak(hour, minute, startHour, startMinute, options) ==
    IF hour > 16 THEN options
    ELSE IF minute >= 60 THEN EndTimeLoopNoBreak(hour + 1, 0, startHour, startMinute, options)
    ELSE IF hour = startHour /\ minute <= startMinute
         THEN EndTimeLoopNoBreak(hour, minute + 15, startHour, startMinute, options)
    ELSE EndTimeLoopNoBreak(hour, minute + 15, startHour, startMinute,
                     Append(options, TimeText(hour, minute)))

getEndTimeOptionsFromStart(startTime) ==
    IF startTime = << >> THEN << >>
    ELSE EndTimeLoopFromStart(Number2(SubSeq(startTime, 1, 2)), 0,
                              Number2(SubSeq(startTime, 1, 2)),
                              Number2(SubSeq(startTime, 4, 5)), << >>)

getEndTimeOptionsStep10(startTime) ==
    IF startTime = << >> THEN << >>
    ELSE EndTimeLoopStep10(Number2(SubSeq(startTime, 1, 2)), 0,
                           Number2(SubSeq(startTime, 1, 2)),
                           Number2(SubSeq(startTime, 4, 5)), << >>)

getEndTimeOptionsNoBreak(startTime) ==
    IF startTime = << >> THEN << >>
    ELSE EndTimeLoopNoBreak(Number2(SubSeq(startTime, 1, 2)), 0,
                            Number2(SubSeq(startTime, 1, 2)),
                            Number2(SubSeq(startTime, 4, 5)), << >>)

\* startTime.split(":").map(Number) gives [startHour, startMinute]
getEndTimeOptions(startTime) ==
    IF startTime = << >> THEN << >>
    ELSE EndTimeLoop(Number2(SubSeq(startTime, 1, 2)), 0,
                     Number2(SubSeq(startTime, 1, 2)),
                     Number2(SubSeq(startTime, 4, 5)), << >>)

-----------------------------------------------------------------------------
(* Times of day as date-fns parses them and as the store keeps them.       *)

\* parse(text, "HH:mm:ss", new Date()).getTime(), in seconds from local midnight
ParseHms(text) ==
    Number2(SubSeq(text, 1, 2)) * 3600 + Number2(SubSeq(text, 4, 5)) * 60
        + Number2(SubSeq(text, 7, 8))

\* parse(text, "HH:mm", new Date()).getTime(), in seconds from local midnight
ParseHm(text) ==
    Number2(SubSeq(text, 1, 2)) * 3600 + Number2(SubSeq(text, 4, 5)) * 60

IsDigits2(s) == \A i \in 1..2 : s[i] \in 48..57

\* whether the store's TIME column accepts the text ("HH:MM:SS")
PgTimeAccepts(text) ==
    /\ Len(text) = 8
    /\ text[3] = 58 /\ text[6] = 58
    /\ IsDigits2(SubSeq(text, 1, 2)) /\ IsDigits2(SubSeq(text, 4, 5))
    /\ IsDigits2(SubSeq(text, 7, 8))
    /\ Number2(SubSeq(text, 1, 2)) <= 23
    /\ Number2(SubSeq(text, 4, 5)) <= 59
    /\ Number2(SubSeq(text, 7, 8)) <= 59

\* TIME input: seconds from midnight
PgTimeIn(text) == ParseHms(text)

\* TIME output: "HH:MM:SS"
PgTimeOut(sec) ==
    pad2(sec \div 3600) \o << 58 >> \o pad2((sec % 3600) \div 60) \o << 58 >> \o pad2(sec % 60)

-----------------------------------------------------------------------------
(* Dates.  A Date object is the number of its local calendar day, day 0    *)
(* being Sunday 2024-05-05; the text "yyyy-MM-dd" is <<yyyy, MM, dd>>.      *)

\* format(date, "yyyy-MM-dd"), for the days of April to June 2024
DateText(date) ==
    LET n == 5 + date
    IN  IF n < 1 THEN << 2024, 4, 30 + n >>
        ELSE IF n > 31 THEN << 2024, 6, n - 31 >>
        ELSE << 2024, 5, n >>

\* the day number of the calendar date "yyyy-MM-dd"
DayOfText(text) ==
    IF text[2] = 4 THEN text[3] - 35
    ELSE IF text[2] = 6 THEN text[3] + 26
    ELSE text[3] - 5

\* minutes of a day
DayMinutes == 24 * 60

\* new Date("yyyy-MM-dd"): midnight UTC of that date, in minutes from 2024-05-05T00:00Z
DateOfText(text) == DayOfText(text) * DayMinutes

\* the local calendar day of an instant in a browser whose zone is offset minutes
\* ahead of UTC
LocalDay(instant, offset) == (instant + offset) \div DayMinutes

\* isSameDay(new Date(text), date) in a browser of that zone
isSameDay(text, date, offset) == LocalDay(DateOfText(text), offset) = date

\* the zone of the Maldives, UTC+5, and one behind UTC, UTC-5
MaldivesOffset == 300
WestOffset == 0 - 300
TimeZones == {MaldivesOffset, WestOffset}

\* the week starts the user can display: startOfWeek(new Date()) and the weeks after
WeekStarts == {7 * k : k \in 0..MaxWeek}

\* the days of the displayed week: addDays(currentWeekStart, i), i = 0..6
weekDays(currentWeekStart) == {currentWeekStart + i : i \in 0..6}

\* the days of the displayed week the user clicks, counted from its Sunday: Monday
\* (open), Tuesday (a holiday in the current week), Friday (closed)
ClickDays == {1, 2, 5}

\* the slots the user clicks
ClickSlots == {SlotTimes[i] : i \in 1..MaxClickSlot} \cup {SlotTimes[Len(SlotTimes)]}

-----------------------------------------------------------------------------
(* State.                                                                  *)

\* the browsers; Spec lets one of them act, SpecRace both
AllClients == {1, 2}

\* SQL NULL, JavaScript null
NULL == "NULL"

\* an absent value is the empty set, a present one a singleton
None == {}
Some(x) == {x}
The(s) == CHOOSE x \in s : TRUE

VARIABLES
    courts,          \* table courts: set of [id]
    schedules,       \* table court_schedules: set of [id, court_id]
    holidays,        \* table holidays: set of [id, date]
    bookings,        \* table bookings: set of rows
    nextId,          \* the next bookings.id the store generates
    schedule,        \* per client: Index.selectedSchedule (None on the list page)
    view,            \* per client: WeeklyScheduler bookings, holidays, courts, loading
    weekStart,       \* per client: WeeklyScheduler.currentWeekStart
    tz,              \* per client: the browser's zone, minutes ahead of UTC
    fetching,        \* per client: fetchData calls in flight, counted by the week they ask for
    selectedSlot,    \* per client: WeeklyScheduler.selectedSlot
    selectedBooking, \* per client: WeeklyScheduler.selectedBooking
    formData,        \* per client: BookingDialog.formData
    dlgLoading,      \* per client: BookingDialog.loading
    pending,         \* per client: the handleSubmit suspended at its insert
    toast,           \* per client: the notification the last step showed ("none": none)
    fn,              \* the pure functions' input and result (SpecFn)
    inactive,        \* the ids of the courts and court_schedules rows with is_active = false
    nextSchedule,    \* the number of the next court_schedules.id the store generates
    role,            \* per client: "none" (no session), "user" (a session), "admin"
    page,            \* per client: the route shown, and for /admin whether Admin.loading
    list             \* per client: the rows the page's list read, and its reads in flight

vars == << courts, schedules, holidays, bookings, nextId, schedule, view, weekStart, tz,
           fetching, selectedSlot, selectedBooking, formData, dlgLoading, pending, toast, fn, tz,
           inactive, nextSchedule, role, page, list >>

storeVars == << courts, schedules, holidays, bookings, nextId, inactive, nextSchedule >>

siteVars == << role, page, list >>

emptyForm == [courtId |-> "", caseNumber |-> "", endTime |-> << >>]

\* bookings is the array setBookings got, in the order the store returned the rows
emptyView == [bookings |-> << >>, holidays |-> {}, courts |-> {}, loading |-> TRUE]

\* no fetchData in flight
noFetch == [w \in WeekStarts |-> 0]

\* the browsers' zones: every client in the Maldives
HomeZones == [c \in AllClients |-> MaldivesOffset]

InitStore ==
    /\ courts = {[id |-> "c1"], [id |-> "c2"]}
    /\ schedules = {[id |-> "s1", court_id |-> "c1"], [id |-> "s2", court_id |-> "c2"]}
    /\ holidays = {[id |-> "h1", date |-> DateText(2)]}
    /\ bookings = {}
    /\ nextId = 1
    /\ inactive = {}
    /\ nextSchedule = 1

InitClients ==
    /\ schedule = [c \in AllClients |-> None]
    /\ view = [c \in AllClients |-> emptyView]
    /\ weekStart = [c \in AllClients |-> 0]
    /\ fetching = [c \in AllClients |-> noFetch]
    /\ selectedSlot = [c \in AllClients |-> None]
    /\ selectedBooking = [c \in AllClients |-> None]
    /\ formData = [c \in AllClients |-> emptyForm]
    /\ dlgLoading = [c \in AllClients |-> FALSE]
    /\ pending = [c \in AllClients |-> None]
    /\ toast = [c \in AllClients |-> "none"]

\* the list of a page that has just mounted: empty, its spinner shown, the read that
\* its effect started in flight
emptyList == [entries |-> {}, courts |-> {}, inactive |-> {}, loading |-> TRUE, fetching |-> 1]

\* the two versions of the page "/": Index lists the schedules, the other the courts
IndexPages == {"index", "courtIndex"}

\* client 1 is signed in as an admin, client 2 is a visitor with no session
HomeRoles == [c \in AllClients |-> IF c = 1 THEN "admin" ELSE "none"]

\* every browser has just opened the page "/"
InitSite ==
    /\ page = [c \in AllClients |-> "index"]
    /\ list = [c \in AllClients |-> emptyList]

Init ==
    /\ InitStore
    /\ InitClients
    /\ InitSite
    /\ role = HomeRoles
    /\ tz = HomeZones
    /\ fn = [op |-> "none"]

\* the session of the client holds the admin role (has_role(auth.uid(), 'admin'))
IsAdmin(c) == role[c] = "admin"

-----------------------------------------------------------------------------
(* The store.                                                              *)

\* a bookings row as the client reads it (JSON): DATE and TIME columns as text
RowOut(r) ==
    [id |-> r.id, court_id |-> r.court_id, display_court_id |-> r.display_court_id,
     date |-> r.date, start_time |-> PgTimeOut(r.start_time),
     end_time |-> PgTimeOut(r.end_time), case_number |-> r.case_number]

\* <<y, m, d>> texts in calendar order (the store's gte / lte on a DATE)
DateLeq(a, b) ==
    \/ a[1] < b[1]
    \/ a[1] = b[1] /\ a[2] < b[2]
    \/ a[1] = b[1] /\ a[2] = b[2] /\ a[3] <= b[3]

\* an insert that also refuses a row overlapping one of the same schedule, date and court
InsertAcceptedExclusive(row) ==
    /\ \E sch \in schedules : sch.id = row.court_id
    /\ row.display_court_id = NULL \/ \E ct \in courts : ct.id = row.display_court_id
    /\ PgTimeAccepts(row.start_time)
    /\ PgTimeAccepts(row.end_time)
    /\ ~ \E r \in bookings :
           /\ r.court_id = row.court_id
           /\ r.display_court_id = row.display_court_id
           /\ r.date = row.date
           /\ r.start_time < PgTimeIn(row.end_time)
           /\ PgTimeIn(row.start_time) < r.end_time

\* whether the store accepts the insert: foreign keys and column types of bookings
InsertAccepted(row) ==
    /\ \E sch \in schedules : sch.id = row.court_id
    /\ row.display_court_id = NULL \/ \E ct \in courts : ct.id = row.display_court_id
    /\ PgTimeAccepts(row.start_time)
    /\ PgTimeAccepts(row.end_time)

\* a store that keeps the row without its display court
StoredRowNoDisplay(row, id) ==
    [id |-> id, court_id |-> row.court_id, display_court_id |-> NULL,
     date |-> row.date, start_time |-> PgTimeIn(row.start_time),
     end_time |-> PgTimeIn(row.end_time), case_number |-> row.case_number]

\* the row the store keeps for an accepted insert
StoredRow(row, id) ==
    [id |-> id, court_id |-> row.court_id, display_court_id |-> row.display_court_id,
     date |-> row.date, start_time |-> PgTimeIn(row.start_time),
     end_time |-> PgTimeIn(row.end_time), case_number |-> row.case_number]

-----------------------------------------------------------------------------
(* BookingDialog.checkOverlap.                                             *)

\* .eq("date", dateStr).or(`display_court_id.eq.${courtToCheck},display_court_id.is.null`)
\* .or(`court_id.eq.${scheduleId}`): the filters of one request are conjoined
OverlapQuery(dateStr, courtToCheck, scheduleId) ==
    {RowOut(r) : r \in {x \in bookings :
        /\ x.date = dateStr
        /\ (x.display_court_id = courtToCheck \/ x.display_court_id = NULL)
        /\ x.court_id = scheduleId}}

\* bookingCourt: booking.display_court_id || booking.court_id
BookingCourt(booking) ==
    IF booking.display_court_id # NULL THEN booking.display_court_id ELSE booking.court_id

\* existingBookings.some(...)
HasOverlap(existingBookings, courtToCheck, newStart, newEnd) ==
    \E booking \in existingBookings :
        /\ BookingCourt(booking) = courtToCheck
        /\ StrLess(newStart, booking.end_time)
        /\ StrLess(booking.start_time, newEnd)

\* formData.courtId || scheduleId
CourtToCheck(scheduleId, fd) == IF fd.courtId # "" THEN fd.courtId ELSE scheduleId

\* whether checkOverlap sends its query (the early return of its first line)
OverlapQueried(startTime, fd) == startTime # << >> /\ fd.endTime # << >>

checkOverlap(scheduleId, date, startTime, fd) ==
    IF ~ OverlapQueried(startTime, fd) THEN FALSE
    ELSE HasOverlap(OverlapQuery(DateText(date), CourtToCheck(scheduleId, fd), scheduleId),
                    CourtToCheck(scheduleId, fd),
                    WithSeconds(startTime), WithSeconds(fd.endTime))

\* the row handleSubmit inserts
InsertRow(scheduleId, date, startTime, fd) ==
    [court_id |-> scheduleId,
     display_court_id |-> IF fd.courtId # "" THEN fd.courtId ELSE NULL,
     date |-> DateText(date),
     start_time |-> WithSeconds(startTime),
     end_time |-> WithSeconds(fd.endTime),
     case_number |-> fd.caseNumber]

-----------------------------------------------------------------------------
(* WeeklyScheduler.                                                        *)

isWeekend(date) == date % 7 = 5 \/ date % 7 = 6

isHoliday(c, date) == \E h \in view[c].holidays : isSameDay(h.date, date, tz[c])

\* the day is shown as closed: isWeekend(day) || isHoliday(day)
isClosed(c, date) == isWeekend(date) \/ isHoliday(c, date)

\* the bookings held in the view state
ViewBookings(c) == {view[c].bookings[i] : i \in 1..Len(view[c].bookings)}

\* a cover test that takes the slot at the end time too
CoversSlotThroughEnd(b, date, time) ==
    /\ b.date = DateText(date)
    /\ ParseHm(time) >= ParseHms(b.start_time)
    /\ ParseHm(time) <= ParseHms(b.end_time)

\* whether the booking covers the slot of that date and time
CoversSlot(b, date, time) ==
    /\ b.date = DateText(date)
    /\ ParseHm(time) >= ParseHms(b.start_time)
    /\ ParseHm(time) < ParseHms(b.end_time)

\* the bookings of the view that cover the slot
BookingsForSlot(c, date, time) == {b \in ViewBookings(c) : CoversSlot(b, date, time)}

\* getBookingForSlot(date, time): bookings.find(...), the first of the array that
\* covers the slot, or none
getBookingForSlot(c, date, time) ==
    LET hits == {i \in 1..Len(view[c].bookings) : CoversSlot(view[c].bookings[i], date, time)}
    IN  IF hits = {} THEN None
        ELSE Some(view[c].bookings[CHOOSE i \in hits : \A j \in hits : i <= j])

\* slots = diffMinutes / 15, as the fraction num / den of seconds
getBookingHeight(booking) ==
    [num |-> ParseHms(booking.end_time) - ParseHms(booking.start_time), den |-> 60 * 15]

\* the arrays a set of rows can be returned as (the reads ask for no order)
Orderings(rows) ==
    {seq \in [1..Cardinality(rows) -> rows] : \A r \in rows : \E i \in DOMAIN seq : seq[i] = r}

\* the rows the three reads of a fetchData for the week from currentWeekStart return
FetchedView(c, currentWeekStart) ==
    [bookings |-> {RowOut(r) : r \in {x \in bookings :
                      /\ x.court_id = The(schedule[c]).id
                      /\ DateLeq(DateText(currentWeekStart), x.date)
                      /\ DateLeq(x.date, DateText(currentWeekStart + 6))}},
     holidays |-> {h \in holidays :
                      /\ DateLeq(DateText(currentWeekStart), h.date)
                      /\ DateLeq(h.date, DateText(currentWeekStart + 6))},
     courts |-> courts]

-----------------------------------------------------------------------------
(* Actions of a client c.  A dialog is modal: while one is open the grid   *)
(* and the page behind it are not clicked.  While a handleSubmit waits for *)
(* its insert the user leaves the dialog alone (the form's values are      *)
(* captured by the running handler), so the dialog's state is the          *)
(* handler's.                                                              *)

\* the text of error.message of a request the store refused
StoreErrorMessage == "store_error"

\* the step shows msg to client c (toast.error / toast.success), or nothing ("none")
Notify(c, msg) == toast' = [x \in AllClients |-> IF x = c THEN msg ELSE "none"]

\* the number of fetchData calls of client c in flight
RECURSIVE InFlightUpTo(_, _)
InFlightUpTo(c, k) == IF k < 0 THEN 0 ELSE fetching[c][7 * k] + InFlightUpTo(c, k - 1)

InFlight(c) == InFlightUpTo(c, MaxWeek)

\* fetchData() for the displayed week: setLoading(true), then the three reads are sent
StartFetch(c) ==
    /\ view' = [view EXCEPT ![c].loading = TRUE]
    /\ fetching' = [fetching EXCEPT ![c][weekStart[c]] = @ + 1]

\* the days the browser's clock can show when the calendar mounts
Todays == {0, 3, 6}

\* startOfWeek(date, { weekStartsOn: 1 }): the Monday on or before the day
startOfWeekMonday(date) == date - ((date + 6) % 7)

\* startOfWeek(date, { weekStartsOn: 0 }): the Sunday on or before the day
startOfWeek(date) == date - (date % 7)

\* the rows fetchSchedules of the schedule-listing Index reads: the schedules whose own
\* is_active is true, each with its court
ActiveSchedules == {sch \in schedules : sch.id \notin inactive}

\* the rows fetchCourts of the court-listing Index reads: the courts with is_active true
ActiveCourts == {ct \in courts : ct.id \notin inactive}

\* the read of a list page is answered: the rows are set, or the failure is logged to
\* the console only; finally setLoading(false)
ListAnswered(c, ok, rows) ==
    /\ list[c].fetching > 0
    /\ list' = [list EXCEPT ![c] = [entries |-> IF ok THEN rows ELSE @.entries,
                                     courts |-> @.courts,
                                     inactive |-> @.inactive,
                                     loading |-> FALSE,
                                     fetching |-> @.fetching - 1]]
    /\ Notify(c, "none")
    /\ UNCHANGED << storeVars, schedule, view, weekStart, fetching, selectedSlot,
                    selectedBooking, formData, dlgLoading, pending, fn, tz, role, page >>

\* the schedule-listing Index: fetchSchedules() is answered
fetchSchedules(c, ok) ==
    /\ page[c] = "index"
    /\ ListAnswered(c, ok, ActiveSchedules)

\* the court-listing Index: fetchCourts() is answered
fetchCourts(c, ok) ==
    /\ page[c] = "courtIndex"
    /\ ListAnswered(c, ok, ActiveCourts)

\* the schedule the court-listing Index hands to WeeklyScheduler for the selected court
scheduleData(selectedCourt) == [id |-> selectedCourt.id, court_id |-> selectedCourt.id]

\* WeeklyScheduler mounts on the current week for the schedule it is given; its effect
\* calls fetchData
MountScheduler(c, sch) ==
    /\ schedule[c] = None
    /\ ~ list[c].loading
    /\ schedule' = [schedule EXCEPT ![c] = Some(sch)]
    /\ view' = [view EXCEPT ![c] = emptyView]
    /\ \E today \in Todays :
          /\ weekStart' = [weekStart EXCEPT ![c] = startOfWeek(today)]
          /\ fetching' = [fetching EXCEPT ![c] = [noFetch EXCEPT ![startOfWeek(today)] = 1]]
    /\ Notify(c, "none")
    /\ UNCHANGED << storeVars, selectedSlot, selectedBooking, formData, dlgLoading,
                    pending, fn, tz, siteVars >>

\* the schedule-listing Index: a schedule card of the list is clicked
SelectSchedule(c, sch) ==
    /\ page[c] = "index"
    /\ sch \in list[c].entries
    /\ MountScheduler(c, sch)

\* the court-listing Index: a court card of the list is clicked
SelectCourt(c, court) ==
    /\ page[c] = "courtIndex"
    /\ court \in list[c].entries
    /\ MountScheduler(c, scheduleData(court))

\* Index: "Back to Courts"; WeeklyScheduler unmounts, the answers to its reads are dropped
BackToCourts(c) ==
    /\ schedule[c] # None
    /\ selectedSlot[c] = None /\ selectedBooking[c] = None
    /\ schedule' = [schedule EXCEPT ![c] = None]
    /\ view' = [view EXCEPT ![c] = emptyView]
    /\ weekStart' = [weekStart EXCEPT ![c] = 0]
    /\ fetching' = [fetching EXCEPT ![c] = noFetch]
    /\ Notify(c, "none")
    /\ UNCHANGED << storeVars, selectedSlot, selectedBooking, formData, dlgLoading,
                    pending, fn, tz, siteVars >>

\* the "Previous" / "Next" buttons: setCurrentWeekStart(subWeeks / addWeeks(..., 1));
\* the effect on currentWeekStart calls fetchData for the new week.  The buttons are
\* shown while loading too.
ChangeWeek(c, newWeekStart) ==
    /\ schedule[c] # None
    /\ selectedSlot[c] = None /\ selectedBooking[c] = None
    /\ newWeekStart \in WeekStarts
    /\ InFlight(c) < MaxInFlight
    /\ weekStart' = [weekStart EXCEPT ![c] = newWeekStart]
    /\ view' = [view EXCEPT ![c].loading = TRUE]
    /\ fetching' = [fetching EXCEPT ![c][newWeekStart] = @ + 1]
    /\ Notify(c, "none")
    /\ UNCHANGED << storeVars, schedule, selectedSlot, selectedBooking, formData,
                    dlgLoading, pending, fn, tz, siteVars >>

PreviousWeek(c) == ChangeWeek(c, weekStart[c] - 7)

NextWeek(c) == ChangeWeek(c, weekStart[c] + 7)

\* a fetchData that applies the bookings it got before it looks at the other reads
FetchDonePartial(c, requested, ok) ==
    /\ requested \in WeekStarts
    /\ fetching[c][requested] > 0
    /\ fetching' = [fetching EXCEPT ![c][requested] = @ - 1]
    /\ IF ok
       THEN /\ \E rows \in Orderings(FetchedView(c, requested).bookings) :
                  view' = [view EXCEPT ![c] =
                              [bookings |-> rows,
                               holidays |-> FetchedView(c, requested).holidays,
                               courts |-> FetchedView(c, requested).courts,
                               loading |-> FALSE]]
            /\ Notify(c, "none")
       ELSE /\ \E rows \in Orderings(FetchedView(c, requested).bookings) :
                  view' = [view EXCEPT ![c].bookings = rows, ![c].loading = FALSE]
            /\ Notify(c, "load_failed")
    /\ UNCHANGED << storeVars, schedule, weekStart, selectedSlot, selectedBooking, formData,
                    dlgLoading, pending, fn, tz, siteVars >>

\* fetchData from the answer of its three reads on, for the call that asked for the
\* week from requested: all three answered (ok), or one of them failed
FetchDone(c, requested, ok) ==
    /\ requested \in WeekStarts
    /\ fetching[c][requested] > 0
    /\ fetching' = [fetching EXCEPT ![c][requested] = @ - 1]
    /\ IF ok
       THEN /\ \E rows \in Orderings(FetchedView(c, requested).bookings) :
                  view' = [view EXCEPT ![c] =
                              [bookings |-> rows,
                               holidays |-> FetchedView(c, requested).holidays,
                               courts |-> FetchedView(c, requested).courts,
                               loading |-> FALSE]]
            /\ Notify(c, "none")
       ELSE /\ view' = [view EXCEPT ![c].loading = FALSE]
            /\ Notify(c, "load_failed")
    /\ UNCHANGED << storeVars, schedule, weekStart, selectedSlot, selectedBooking, formData,
                    dlgLoading, pending, fn, tz, siteVars >>

\* handleSlotClick(date, time)
handleSlotClick(c, date, time) ==
    IF isWeekend(date) \/ isHoliday(c, date)
    THEN UNCHANGED << selectedSlot, selectedBooking, formData, dlgLoading >>
    ELSE IF getBookingForSlot(c, date, time) # None
    THEN /\ selectedBooking' = [selectedBooking EXCEPT ![c] = getBookingForSlot(c, date, time)]
         /\ UNCHANGED << selectedSlot, formData, dlgLoading >>
    ELSE /\ selectedSlot' = [selectedSlot EXCEPT ![c] = Some([date |-> date, time |-> time])]
         /\ formData' = [formData EXCEPT ![c] = emptyForm]
         /\ dlgLoading' = [dlgLoading EXCEPT ![c] = FALSE]
         /\ UNCHANGED selectedBooking

\* whether the grid can be clicked: it is rendered and no modal dialog covers it
GridOpen(c) ==
    /\ schedule[c] # None
    /\ ~ view[c].loading
    /\ selectedSlot[c] = None /\ selectedBooking[c] = None

\* a slot cell's onClick: !isHol && !booking && handleSlotClick(day, slot.time)
ClickCell(c, date, time) ==
    /\ GridOpen(c)
    /\ date \in weekDays(weekStart[c])
    /\ IF ~ (isWeekend(date) \/ isHoliday(c, date)) /\ getBookingForSlot(c, date, time) = None
       THEN handleSlotClick(c, date, time)
       ELSE UNCHANGED << selectedSlot, selectedBooking, formData, dlgLoading >>
    /\ Notify(c, "none")
    /\ UNCHANGED << storeVars, schedule, view, weekStart, fetching, pending, fn, tz, siteVars >>

\* the card the cell of that day and slot shows: the booking getBookingForSlot finds
\* there, if its start_time starts with the slot's time
CardAt(c, date, time) ==
    {b \in getBookingForSlot(c, date, time) : StartsWith(b.start_time, time)}

\* the cells of the grid whose card is the booking's
CardCells(c, b) ==
    {cell \in weekDays(weekStart[c]) \X (1..Len(timeSlots)) :
        b \in CardAt(c, cell[1], timeSlots[cell[2]].time)}

\* whether a card of the booking is rendered
CardRendered(c, b) == CardCells(c, b) # {}

\* a booking card's onClick: setSelectedBooking(booking)
ClickBookingCard(c, b) ==
    /\ GridOpen(c)
    /\ b \in ViewBookings(c)
    /\ CardRendered(c, b)
    /\ selectedBooking' = [selectedBooking EXCEPT ![c] = Some(b)]
    /\ Notify(c, "none")
    /\ UNCHANGED << storeVars, schedule, view, weekStart, fetching, selectedSlot, formData,
                    dlgLoading, pending, fn, tz, siteVars >>

\* the creation form is shown and no submit of it is running
FormOpen(c) == selectedSlot[c] # None /\ pending[c] = None

\* the court Select's onValueChange
SetCourtId(c, value) ==
    /\ FormOpen(c)
    /\ value \in {ct.id : ct \in view[c].courts}
    /\ formData' = [formData EXCEPT ![c].courtId = value]
    /\ Notify(c, "none")
    /\ UNCHANGED << storeVars, schedule, view, weekStart, fetching, selectedSlot,
                    selectedBooking, dlgLoading, pending, fn, tz, siteVars >>

\* the case number Input's onChange
SetCaseNumber(c, value) ==
    /\ FormOpen(c)
    /\ formData' = [formData EXCEPT ![c].caseNumber = value]
    /\ Notify(c, "none")
    /\ UNCHANGED << storeVars, schedule, view, weekStart, fetching, selectedSlot,
                    selectedBooking, dlgLoading, pending, fn, tz, siteVars >>

\* the end time Select's onValueChange: one of the options of getEndTimeOptions()
SetEndTime(c, i) ==
    /\ FormOpen(c)
    /\ i \in 1..Len(getEndTimeOptions(The(selectedSlot[c]).time))
    /\ formData' = [formData EXCEPT ![c].endTime = getEndTimeOptions(The(selectedSlot[c]).time)[i]]
    /\ Notify(c, "none")
    /\ UNCHANGED << storeVars, schedule, view, weekStart, fetching, selectedSlot,
                    selectedBooking, dlgLoading, pending, fn, tz, siteVars >>

\* onOpenChange(false) of either dialog: the dialog unmounts, its state is gone
CloseDialog(c) ==
    /\ selectedSlot[c] # None \/ selectedBooking[c] # None
    /\ pending[c] = None
    /\ selectedSlot' = [selectedSlot EXCEPT ![c] = None]
    /\ selectedBooking' = [selectedBooking EXCEPT ![c] = None]
    /\ formData' = [formData EXCEPT ![c] = emptyForm]
    /\ dlgLoading' = [dlgLoading EXCEPT ![c] = FALSE]
    /\ Notify(c, "none")
    /\ UNCHANGED << storeVars, schedule, view, weekStart, fetching, pending, fn, tz, siteVars >>

-----------------------------------------------------------------------------
(* BookingDialog: submitting the creation form.                            *)

\* The browser's check of the form's `required` controls before it fires onSubmit.
\* The case number is a native input.  The two Selects are components whose hidden
\* form control may or may not report a missing value: selectsEnforced is either.
FormPasses(fd, selectsEnforced) ==
    /\ fd.caseNumber # ""
    /\ selectsEnforced => (fd.courtId # "" /\ fd.endTime # << >>)

\* handleSubmit that goes on to the insert whatever checkOverlap returned
handleSubmitIgnoringOverlap(c, queryOk) ==
    LET scheduleId == The(schedule[c]).id
        slot == The(selectedSlot[c])
        fd == formData[c]
    IN  /\ pending' = [pending EXCEPT ![c] =
               Some(InsertRow(scheduleId, slot.date, slot.time, fd))]
        /\ dlgLoading' = [dlgLoading EXCEPT ![c] = TRUE]
        /\ Notify(c, "none")

\* handleSubmit that returns on a conflict without setLoading(false)
handleSubmitLeavingLoading(c, queryOk) ==
    LET scheduleId == The(schedule[c]).id
        slot == The(selectedSlot[c])
        fd == formData[c]
    IN  IF OverlapQueried(slot.time, fd) /\ ~ queryOk
        THEN /\ Notify(c, StoreErrorMessage)
             /\ dlgLoading' = [dlgLoading EXCEPT ![c] = FALSE]
             /\ UNCHANGED pending
        ELSE IF checkOverlap(scheduleId, slot.date, slot.time, fd)
        THEN /\ Notify(c, "conflict")
             /\ dlgLoading' = [dlgLoading EXCEPT ![c] = TRUE]
             /\ UNCHANGED pending
        ELSE /\ pending' = [pending EXCEPT ![c] =
                    Some(InsertRow(scheduleId, slot.date, slot.time, fd))]
             /\ dlgLoading' = [dlgLoading EXCEPT ![c] = TRUE]
             /\ Notify(c, "none")

\* handleSubmit up to its insert: setLoading(true), checkOverlap, and on a conflict
\* the toast, setLoading(false) and return.  queryOk: the overlap read succeeds.
handleSubmit(c, queryOk) ==
    LET scheduleId == The(schedule[c]).id
        slot == The(selectedSlot[c])
        fd == formData[c]
    IN  IF OverlapQueried(slot.time, fd) /\ ~ queryOk
        THEN /\ Notify(c, StoreErrorMessage)
             /\ dlgLoading' = [dlgLoading EXCEPT ![c] = FALSE]
             /\ UNCHANGED pending
        ELSE IF checkOverlap(scheduleId, slot.date, slot.time, fd)
        THEN /\ Notify(c, "conflict")
             /\ dlgLoading' = [dlgLoading EXCEPT ![c] = FALSE]
             /\ UNCHANGED pending
        ELSE /\ pending' = [pending EXCEPT ![c] =
                    Some(InsertRow(scheduleId, slot.date, slot.time, fd))]
             /\ dlgLoading' = [dlgLoading EXCEPT ![c] = TRUE]
             /\ Notify(c, "none")

\* the submit button (disabled while loading) is pressed
SubmitForm(c, selectsEnforced, queryOk) ==
    /\ FormOpen(c)
    /\ ~ dlgLoading[c]
    /\ FormPasses(formData[c], selectsEnforced)
    /\ handleSubmit(c, queryOk)
    /\ UNCHANGED << storeVars, schedule, view, weekStart, fetching, selectedSlot,
                    selectedBooking, formData, fn, tz, siteVars >>

\* handleSubmit from the answer of its insert on: the success toast and onSuccess
\* (setSelectedSlot(null); fetchData()), or the error toast; finally setLoading(false)
InsertDone(c, ok) ==
    /\ pending[c] # None
    /\ IF ok /\ InsertAccepted(The(pending[c]))
       THEN /\ nextId <= MaxCreates
            /\ bookings' = bookings \cup {StoredRow(The(pending[c]), nextId)}
            /\ nextId' = nextId + 1
            /\ Notify(c, "created")
            /\ selectedSlot' = [selectedSlot EXCEPT ![c] = None]
            /\ formData' = [formData EXCEPT ![c] = emptyForm]
            /\ StartFetch(c)
       ELSE /\ Notify(c, StoreErrorMessage)
            /\ UNCHANGED << bookings, nextId, selectedSlot, formData, view, fetching >>
    /\ dlgLoading' = [dlgLoading EXCEPT ![c] = FALSE]
    /\ pending' = [pending EXCEPT ![c] = None]
    /\ UNCHANGED << courts, schedules, holidays, schedule, weekStart, selectedBooking, fn, tz, siteVars,
                    inactive, nextSchedule >>

\* a delete that marks the row instead of removing it
handleDeleteBookingByUpdate(c, ok) ==
    /\ selectedBooking[c] # None
    /\ IF ok
       THEN /\ bookings' = IF IsAdmin(c)
                           THEN {IF r.id = The(selectedBooking[c]).id
                                 THEN [r EXCEPT !.case_number = "cancelled"]
                                 ELSE r : r \in bookings}
                           ELSE bookings
            /\ Notify(c, "deleted")
            /\ selectedBooking' = [selectedBooking EXCEPT ![c] = None]
            /\ StartFetch(c)
       ELSE /\ Notify(c, StoreErrorMessage)
            /\ UNCHANGED << bookings, selectedBooking, view, fetching >>
    /\ UNCHANGED << courts, schedules, holidays, nextId, schedule, weekStart, selectedSlot,
                    formData, dlgLoading, pending, fn, tz, siteVars,
                    inactive, nextSchedule >>

\* a delete under a policy that lets every caller remove the row
handleDeleteBookingAnyone(c, ok) ==
    /\ selectedBooking[c] # None
    /\ IF ok
       THEN /\ bookings' = {r \in bookings : r.id # The(selectedBooking[c]).id}
            /\ Notify(c, "deleted")
            /\ selectedBooking' = [selectedBooking EXCEPT ![c] = None]
            /\ StartFetch(c)
       ELSE /\ Notify(c, StoreErrorMessage)
            /\ UNCHANGED << bookings, selectedBooking, view, fetching >>
    /\ UNCHANGED << courts, schedules, holidays, nextId, schedule, weekStart, selectedSlot,
                    formData, dlgLoading, pending, fn, tz, siteVars,
                    inactive, nextSchedule >>

\* handleDeleteBooking(bookingId): the delete policy lets only an admin's delete
\* remove the row; a delete that removes nothing is no error
handleDeleteBooking(c, ok) ==
    /\ selectedBooking[c] # None
    /\ IF ok
       THEN /\ bookings' = IF IsAdmin(c)
                           THEN {r \in bookings : r.id # The(selectedBooking[c]).id}
                           ELSE bookings
            /\ Notify(c, "deleted")
            /\ selectedBooking' = [selectedBooking EXCEPT ![c] = None]
            /\ StartFetch(c)
       ELSE /\ Notify(c, StoreErrorMessage)
            /\ UNCHANGED << bookings, selectedBooking, view, fetching >>
    /\ UNCHANGED << courts, schedules, holidays, nextId, schedule, weekStart, selectedSlot,
                    formData, dlgLoading, pending, fn, tz, siteVars,
                    inactive, nextSchedule >>

-----------------------------------------------------------------------------
(* The pages.  A browser shows one route at a time: "/" in one of its two   *)
(* versions, /admin while checkAuth runs ("checking") and after it         *)
(* ("admin"), or /auth.  Leaving "/" unmounts the calendar.                *)

\* no dialog is open and no handler of the client is suspended
Idle(c) == selectedSlot[c] = None /\ selectedBooking[c] = None /\ pending[c] = None

\* the page the client shows is unmounted: its state is gone, the answers to its reads
\* are dropped
Unmount(c) ==
    /\ schedule' = [schedule EXCEPT ![c] = None]
    /\ view' = [view EXCEPT ![c] = emptyView]
    /\ weekStart' = [weekStart EXCEPT ![c] = 0]
    /\ fetching' = [fetching EXCEPT ![c] = noFetch]

\* the browser opens "/": the page mounts, loading, and its effect reads the list
OpenIndex(c, version) ==
    /\ Idle(c)
    /\ page[c] \notin IndexPages
    /\ version \in IndexPages
    /\ page' = [page EXCEPT ![c] = version]
    /\ list' = [list EXCEPT ![c] = emptyList]
    /\ Unmount(c)
    /\ Notify(c, "none")
    /\ UNCHANGED << storeVars, selectedSlot, selectedBooking, formData, dlgLoading,
                    pending, fn, tz, role >>

\* the browser opens /admin: Admin mounts with loading = true, its effect calls
\* checkAuth, which waits for getSession
OpenAdmin(c) ==
    /\ Idle(c)
    /\ page[c] # "checking"
    /\ page' = [page EXCEPT ![c] = "checking"]
    /\ list' = [list EXCEPT ![c] = [emptyList EXCEPT !.fetching = 0]]
    /\ Unmount(c)
    /\ Notify(c, "none")
    /\ UNCHANGED << storeVars, selectedSlot, selectedBooking, formData, dlgLoading,
                    pending, fn, tz, role >>

\* a checkAuth that does not leave the page when there is no session
checkAuthNoRedirect(c) ==
    /\ page[c] = "checking"
    /\ page' = [page EXCEPT ![c] = "admin"]
    /\ list' = [list EXCEPT ![c] = emptyList]
    /\ Notify(c, "none")
    /\ UNCHANGED << storeVars, schedule, view, weekStart, fetching, selectedSlot,
                    selectedBooking, formData, dlgLoading, pending, fn, tz, role >>

\* Admin.checkAuth from the answer of getSession on: navigate("/auth") when there is
\* no session, then setLoading(false).  The route changes as navigate is called, so
\* the next render is of /auth; with a session the tabs mount and read their tables.
checkAuth(c) ==
    /\ page[c] = "checking"
    /\ IF role[c] = "none"
       THEN /\ page' = [page EXCEPT ![c] = "auth"]
            /\ UNCHANGED list
       ELSE /\ page' = [page EXCEPT ![c] = "admin"]
            /\ list' = [list EXCEPT ![c] = emptyList]
    /\ Notify(c, "none")
    /\ UNCHANGED << storeVars, schedule, view, weekStart, fetching, selectedSlot,
                    selectedBooking, formData, dlgLoading, pending, fn, tz, role >>

\* what Admin renders: the spinner while loading, the tabs after
AdminRenders(c) ==
    IF page[c] = "checking" THEN "spinner" ELSE IF page[c] = "admin" THEN "tabs" ELSE "nothing"

\* Admin.handleLogout: signOut, the success toast, navigate("/auth")
handleLogout(c) ==
    /\ page[c] = "admin"
    /\ role' = [role EXCEPT ![c] = "none"]
    /\ page' = [page EXCEPT ![c] = "auth"]
    /\ list' = [list EXCEPT ![c] = [emptyList EXCEPT !.fetching = 0]]
    /\ Notify(c, "logged_out")
    /\ UNCHANGED << storeVars, schedule, view, weekStart, fetching, selectedSlot,
                    selectedBooking, formData, dlgLoading, pending, fn, tz >>

(* The admin area: the tabs of /admin.  SchedulesTab keeps the schedules   *)
(* and the courts it read in list; CourtsTab keeps a table of its own,     *)
(* which may lag the store, so what its rows show is an input.             *)

\* SchedulesTab.fetchData() is answered: both tables are set, or the error is shown;
\* finally setLoading(false)
SchedulesTab_fetchData(c, ok) ==
    /\ page[c] = "admin"
    /\ list[c].fetching > 0
    /\ list' = [list EXCEPT ![c] =
                   IF ok
                   THEN [entries |-> schedules, courts |-> courts,
                         inactive |-> {sch.id : sch \in schedules} \cap inactive,
                         loading |-> FALSE, fetching |-> @.fetching - 1]
                   ELSE [@ EXCEPT !.loading = FALSE, !.fetching = @ - 1]]
    /\ Notify(c, IF ok THEN "none" ELSE StoreErrorMessage)
    /\ UNCHANGED << storeVars, schedule, view, weekStart, fetching, selectedSlot,
                    selectedBooking, formData, dlgLoading, pending, fn, tz, role, page >>

\* SchedulesTab.availableCourts: the courts of the tab that no schedule of the tab names
availableCourts(c) ==
    {court \in list[c].courts : ~ \E sch \in list[c].entries : sch.court_id = court.id}

\* the tab calls fetchData() after a write
RefreshTab(c) == list' = [list EXCEPT ![c].fetching = @ + 1]

\* the id the store generates for the n-th schedule created: "s3", "s4", ...
NewScheduleId(n) == "s" \o ToString(n + 2)

\* an insert into court_schedules that court_id UNIQUE does not stop
ScheduleInsertAcceptedNoUnique(c, courtId) ==
    /\ IsAdmin(c)
    /\ \E court \in courts : court.id = courtId

\* the store takes the row {court_id}: the insert policy admits admins, court_id
\* REFERENCES courts(id) and is UNIQUE
ScheduleInsertAccepted(c, courtId) ==
    /\ IsAdmin(c)
    /\ \E court \in courts : court.id = courtId
    /\ ~ \E sch \in schedules : sch.court_id = courtId

\* SchedulesTab.handleSubmit with the court picked in the dialog, which offers
\* availableCourts: the insert, then the success toast and fetchData(), or the toast
\* of the error's message
SchedulesTab_handleSubmit(c, selectedCourtId, ok) ==
    /\ page[c] = "admin" /\ ~ list[c].loading
    /\ list[c].fetching < MaxInFlight
    /\ \E court \in availableCourts(c) : court.id = selectedCourtId
    /\ IF ok /\ ScheduleInsertAccepted(c, selectedCourtId)
       THEN /\ nextSchedule <= MaxSchedules
            /\ schedules' = schedules \cup {[id |-> NewScheduleId(nextSchedule),
                                              court_id |-> selectedCourtId]}
            /\ nextSchedule' = nextSchedule + 1
            /\ Notify(c, "schedule_created")
            /\ RefreshTab(c)
       ELSE /\ Notify(c, StoreErrorMessage)
            /\ UNCHANGED << schedules, nextSchedule, list >>
    /\ UNCHANGED << courts, holidays, bookings, nextId, inactive, schedule, view, weekStart,
                    fetching, selectedSlot, selectedBooking, formData, dlgLoading, pending,
                    fn, tz, role, page >>

\* SchedulesTab.handleDelete(id) on a row of the tab: the delete policy lets only an
\* admin's delete remove the row; bookings.court_id is ON DELETE CASCADE
SchedulesTab_handleDelete(c, id, ok) ==
    /\ page[c] = "admin" /\ ~ list[c].loading
    /\ list[c].fetching < MaxInFlight
    /\ \E sch \in list[c].entries : sch.id = id
    /\ IF ok
       THEN /\ IF IsAdmin(c)
               THEN /\ schedules' = {sch \in schedules : sch.id # id}
                    /\ bookings' = {r \in bookings : r.court_id # id}
               ELSE UNCHANGED << schedules, bookings >>
            /\ Notify(c, "schedule_deleted")
            /\ RefreshTab(c)
       ELSE /\ Notify(c, StoreErrorMessage)
            /\ UNCHANGED << schedules, bookings, list >>
    /\ UNCHANGED << courts, holidays, nextId, inactive, nextSchedule, schedule, view,
                    weekStart, fetching, selectedSlot, selectedBooking, formData, dlgLoading,
                    pending, fn, tz, role, page >>

\* the update of is_active on the row with that id, written as the opposite of what
\* the table showed; the update policy lets only an admin's update change the row
ToggledActive(c, rows, id, currentStatus) ==
    IF IsAdmin(c) /\ \E row \in rows : row.id = id
    THEN IF currentStatus THEN inactive \cup {id} ELSE inactive \ {id}
    ELSE inactive

\* SchedulesTab.handleToggleActive(id, currentStatus) on a row of the tab
SchedulesTab_handleToggleActive(c, id, ok) ==
    /\ page[c] = "admin" /\ ~ list[c].loading
    /\ list[c].fetching < MaxInFlight
    /\ \E sch \in list[c].entries : sch.id = id
    /\ IF ok
       THEN /\ inactive' = ToggledActive(c, schedules, id, id \notin list[c].inactive)
            /\ Notify(c, IF id \notin list[c].inactive THEN "schedule_deactivated"
                                                        ELSE "schedule_activated")
            /\ RefreshTab(c)
       ELSE /\ Notify(c, StoreErrorMessage)
            /\ UNCHANGED << inactive, list >>
    /\ UNCHANGED << courts, schedules, holidays, bookings, nextId, nextSchedule, schedule,
                    view, weekStart, fetching, selectedSlot, selectedBooking, formData,
                    dlgLoading, pending, fn, tz, role, page >>

\* CourtsTab.handleToggleActive(id, currentStatus) on a row of its table
CourtsTab_handleToggleActive(c, id, currentStatus, ok) ==
    /\ page[c] = "admin"
    /\ IF ok
       THEN /\ inactive' = ToggledActive(c, courts, id, currentStatus)
            /\ Notify(c, IF currentStatus THEN "court_deactivated" ELSE "court_activated")
       ELSE /\ Notify(c, StoreErrorMessage)
            /\ UNCHANGED inactive
    /\ UNCHANGED << courts, schedules, holidays, bookings, nextId, nextSchedule, schedule,
                    view, weekStart, fetching, selectedSlot, selectedBooking, formData,
                    dlgLoading, pending, fn, tz, siteVars >>

\* the rows left after the court with that id is deleted: court_schedules.court_id,
\* bookings.court_id and bookings.display_court_id are all ON DELETE CASCADE
SchedulesWithout(id) == {sch \in schedules : sch.court_id # id}

BookingsWithout(id) ==
    {r \in bookings : /\ r.display_court_id # id
                      /\ \E sch \in SchedulesWithout(id) : sch.id = r.court_id}

\* a delete of a court that leaves its schedule and their bookings behind
handleDeleteNoCascade(c, id, ok) ==
    /\ page[c] = "admin"
    /\ IF ok
       THEN /\ courts' = IF IsAdmin(c) THEN {ct \in courts : ct.id # id} ELSE courts
            /\ UNCHANGED << schedules, bookings >>
            /\ Notify(c, "court_deleted")
       ELSE /\ Notify(c, StoreErrorMessage)
            /\ UNCHANGED << courts, schedules, bookings >>
    /\ UNCHANGED << holidays, nextId, schedule, view, weekStart, fetching, selectedSlot,
                    selectedBooking, formData, dlgLoading, pending, fn, tz, siteVars,
                    inactive, nextSchedule >>

\* CourtsTab.handleDelete(id): the delete policy of courts lets only an admin's delete
\* remove the row; a delete that removes nothing is no error.  (The fetchCourts()
\* that follows refreshes the table of CourtsTab, which the calendar does not read.)
handleDelete(c, id, ok) ==
    /\ page[c] = "admin"
    /\ IF ok
       THEN /\ IF IsAdmin(c)
               THEN /\ courts' = {ct \in courts : ct.id # id}
                    /\ schedules' = SchedulesWithout(id)
                    /\ bookings' = BookingsWithout(id)
               ELSE UNCHANGED << courts, schedules, bookings >>
            /\ Notify(c, "court_deleted")
       ELSE /\ Notify(c, StoreErrorMessage)
            /\ UNCHANGED << courts, schedules, bookings >>
    /\ UNCHANGED << holidays, nextId, schedule, view, weekStart, fetching, selectedSlot,
                    selectedBooking, formData, dlgLoading, pending, fn, tz, siteVars,
                    inactive, nextSchedule >>

\* the holidays tab: an admin adds a holiday on a day that has none yet (the insert
\* policy of holidays admits admins only)
AddHoliday(c, date) ==
    /\ page[c] = "admin"
    /\ IsAdmin(c)
    /\ ~ \E h \in holidays : h.date = DateText(date)
    /\ holidays' = holidays \cup {[id |-> date, date |-> DateText(date)]}
    /\ Notify(c, "holiday_created")
    /\ UNCHANGED << courts, schedules, bookings, nextId, schedule, view, weekStart, fetching,
                    selectedSlot, selectedBooking, formData, dlgLoading, pending, fn, tz, siteVars,
                    inactive, nextSchedule >>

\* the steps of client c, the user's choices drawn from the given sets
ClientStep(c, scheduleIds, days, slots, caseNumbers, endChoices) ==
    \/ fetchSchedules(c, TRUE)
    \/ \E sch \in list[c].entries : sch.id \in scheduleIds /\ SelectSchedule(c, sch)
    \/ BackToCourts(c)
    \/ \E requested \in WeekStarts : FetchDone(c, requested, TRUE)
    \/ \E day \in days, time \in slots : ClickCell(c, weekStart[c] + day, time)
    \/ \E b \in ViewBookings(c) : ClickBookingCard(c, b)
    \/ \E value \in {"c1", "c2"} : SetCourtId(c, value)
    \/ \E value \in caseNumbers : SetCaseNumber(c, value)
    \/ \E i \in endChoices : SetEndTime(c, i)
    \/ CloseDialog(c)
    \/ \E selectsEnforced \in BOOLEAN, queryOk \in BOOLEAN : SubmitForm(c, selectsEnforced, queryOk)
    \/ \E ok \in BOOLEAN : InsertDone(c, ok)
    \/ \E ok \in BOOLEAN : handleDeleteBooking(c, ok)

\* one browser
Next == ClientStep(1, {"s1", "s2"}, ClickDays, ClickSlots, {"", "A1"}, 1..MaxEndChoice)

Spec == Init /\ [][Next]_vars

\* two browsers on the schedule s1, both clicking the first slot
NextRace == \E c \in AllClients : ClientStep(c, {"s1"}, ClickDays, {SlotTimes[1]}, {"A1"}, 1..MaxEndChoice)

SpecRace == Init /\ [][NextRace]_vars

\* the admin books one slot, and manages courts and holidays
NextAdmin ==
    \/ ClientStep(1, {"s1", "s2"}, ClickDays, {SlotTimes[1]}, {"A1"}, 1..1)
    \/ OpenAdmin(1)
    \/ checkAuth(1)
    \/ OpenIndex(1, "index")
    \/ \E id \in {"c1", "c2"}, ok \in BOOLEAN : handleDelete(1, id, ok)
    \/ AddHoliday(1, 1)

SpecAdmin == Init /\ [][NextAdmin]_vars

\* one client books a slot and moves between the weeks
NextNav ==
    \/ ClientStep(1, {"s1"}, {1}, {SlotTimes[1]}, {"A1"}, 1..1)
    \/ PreviousWeek(1)
    \/ NextWeek(1)

SpecNav == Init /\ [][NextNav]_vars

\* the same, and the reads of a fetchData may fail
NextView ==
    \/ NextNav
    \/ \E requested \in WeekStarts : FetchDone(1, requested, FALSE)

SpecView == Init /\ [][NextView]_vars

\* one client books the first three slots of one schedule
NextGrid ==
    ClientStep(1, {"s1"}, {1}, {SlotTimes[1], SlotTimes[2], SlotTimes[3]}, {"A1"}, 1..MaxEndChoice)

SpecGrid == Init /\ [][NextGrid]_vars

-----------------------------------------------------------------------------
\* the browsers open either version of "/"
InitSiteAny ==
    /\ page \in [AllClients -> IndexPages]
    /\ list = [c \in AllClients |-> emptyList]

\* the same, and each browser holds no session, a session, or an admin's session
InitSiteRoles ==
    /\ InitStore
    /\ InitClients
    /\ InitSiteAny
    /\ role \in [AllClients -> {"none", "user", "admin"}]
    /\ tz = HomeZones
    /\ fn = [op |-> "none"]

\* two browsers move between "/" and /admin; those who get in manage the schedules
\* and switch courts and schedules on and off
NextSite ==
    \E c \in AllClients :
        \/ OpenAdmin(c)
        \/ checkAuth(c)
        \/ handleLogout(c)
        \/ \E version \in IndexPages : OpenIndex(c, version)
        \/ \E ok \in BOOLEAN : fetchSchedules(c, ok)
        \/ \E ok \in BOOLEAN : fetchCourts(c, ok)
        \/ \E ok \in BOOLEAN : SchedulesTab_fetchData(c, ok)
        \/ \E ok \in BOOLEAN : SchedulesTab_handleSubmit(c, "c1", ok)
        \/ \E ok \in BOOLEAN : SchedulesTab_handleDelete(c, "s1", ok)
        \/ \E ok \in BOOLEAN : SchedulesTab_handleToggleActive(c, "s2", ok)
        \/ \E currentStatus \in BOOLEAN, ok \in BOOLEAN :
              CourtsTab_handleToggleActive(c, "c2", currentStatus, ok)

SpecSite == InitSiteRoles /\ [][NextSite]_vars

\* one browser on the court-listing or the schedule-listing "/" books a slot
NextCourt ==
    \/ ClientStep(1, {"s1"}, {1}, {SlotTimes[1]}, {"A1"}, 1..1)
    \/ fetchCourts(1, TRUE)
    \/ \E court \in list[1].entries : court.id = "c1" /\ SelectCourt(1, court)

\* the browser opens either version of "/"
InitCourt ==
    /\ InitStore
    /\ InitClients
    /\ InitSiteAny
    /\ role = HomeRoles
    /\ tz = HomeZones
    /\ fn = [op |-> "none"]

SpecCourt == InitCourt /\ [][NextCourt]_vars

(* The pure functions on their own: Init draws the inputs, a step applies  *)
(* one function to them.                                                   *)

SlotTimeSet == {SlotTimes[i] : i \in 1..Len(SlotTimes)}

\* the holiday rows a view of the current week can hold
HolidayInputs == {[id |-> day, date |-> DateText(day)] : day \in weekDays(0)}

\* the inputs: a start time for the slot functions, or a day of the current week, the
\* holidays of the view and the zone of the browser for the day functions
InitFn ==
    /\ InitStore
    /\ InitSite
    /\ role = HomeRoles
    /\ \/ /\ InitClients
          /\ tz = HomeZones
          /\ fn \in [op : {"input"}, startTime : SlotTimeSet, time : SlotTimeSet]
       \/ /\ schedule = [c \in AllClients |-> None]
          /\ \E held \in SUBSET HolidayInputs :
                view = [c \in AllClients |-> [emptyView EXCEPT !.holidays = held]]
          /\ weekStart = [c \in AllClients |-> 0]
          /\ fetching = [c \in AllClients |-> noFetch]
          /\ selectedSlot = [c \in AllClients |-> None]
          /\ selectedBooking = [c \in AllClients |-> None]
          /\ formData = [c \in AllClients |-> emptyForm]
          /\ dlgLoading = [c \in AllClients |-> FALSE]
          /\ pending = [c \in AllClients |-> None]
          /\ toast = [c \in AllClients |-> "none"]
          /\ \E offset \in TimeZones : tz = [c \in AllClients |-> offset]
          /\ fn \in [op : {"inputDay"}, date : weekDays(0)]

fnFrame ==
    UNCHANGED << storeVars, schedule, view, weekStart, tz, fetching, selectedSlot,
                 selectedBooking, formData, dlgLoading, pending, toast, siteVars >>

\* the component body runs: timeSlots is filled
ApplyTimeSlots ==
    /\ fn.op = "input"
    /\ fn' = [op |-> "timeSlots", startTime |-> fn.startTime, time |-> fn.time,
              result |-> timeSlots]
    /\ fnFrame

\* the end time Select renders getEndTimeOptions() for the dialog's startTime
ApplyGetEndTimeOptions ==
    /\ fn.op = "input"
    /\ fn' = [op |-> "getEndTimeOptions", startTime |-> fn.startTime, time |-> fn.time,
              result |-> getEndTimeOptions(fn.startTime)]
    /\ fnFrame

\* a day column renders: isWeekend(day) || isHoliday(day)
ApplyIsClosed ==
    /\ fn.op = "inputDay"
    /\ fn' = [op |-> "isClosed", date |-> fn.date, result |-> isClosed(1, fn.date)]
    /\ fnFrame

FnNext == ApplyTimeSlots \/ ApplyGetEndTimeOptions \/ ApplyIsClosed

SpecFn == InitFn /\ [][FnNext]_vars

-----------------------------------------------------------------------------
(* Notions of the specification used to state the claims.                  *)

\* the court of the schedule with the given id
CourtOfSchedule(scheduleId) == (CHOOSE sch \in schedules : sch.id = scheduleId).court_id

\* the resolved court key of a persisted booking: its display court if present,
\* otherwise the court of its owning schedule
ResolvedKey(r) ==
    IF r.display_court_id # NULL THEN r.display_court_id ELSE CourtOfSchedule(r.court_id)

\* the resolved court key of the candidate of client c's creation form
CandidateKey(c) ==
    IF formData[c].courtId # "" THEN formData[c].courtId
    ELSE CourtOfSchedule(The(schedule[c]).id)

\* half-open intervals of seconds intersect
Intersect(start1, end1, start2, end2) == start1 < end2 /\ end1 > start2

\* client c's creation form holds a complete candidate
CandidateComplete(c) ==
    /\ selectedSlot[c] # None /\ schedule[c] # None
    /\ formData[c].endTime # << >>

\* what checkOverlap returns for client c's form now
CheckOverlapNow(c) ==
    checkOverlap(The(schedule[c]).id, The(selectedSlot[c]).date,
                 The(selectedSlot[c]).time, formData[c])

\* some persisted booking conflicts with client c's candidate
SpecConflict(c) ==
    \E r \in bookings :
        /\ r.date = DateText(The(selectedSlot[c]).date)
        /\ ResolvedKey(r) = CandidateKey(c)
        /\ Intersect(ParseHm(The(selectedSlot[c]).time), ParseHm(formData[c].endTime),
                     r.start_time, r.end_time)

-----------------------------------------------------------------------------
(* Claims.                                                                 *)

\* C1: with creations run one at a time, no two persisted bookings of the same date
\* and the same resolved court key have intersecting intervals, whichever schedules
\* own them.  Stated for the bookings that carry a display court, whose key is that
\* court.
C1_NoOverlapPerKey ==
    \A r1 \in bookings : \A r2 \in bookings :
        (/\ r1.id # r2.id /\ r1.date = r2.date
         /\ r1.display_court_id # NULL /\ r2.display_court_id # NULL
         /\ ResolvedKey(r1) = ResolvedKey(r2))
            => ~ Intersect(r1.start_time, r1.end_time, r2.start_time, r2.end_time)

\* C2: checkOverlap returns true iff some existing booking of that date has the
\* candidate's resolved court key and an interval that intersects the candidate's.
\* Stated for a candidate with a display court among bookings that all carry one,
\* where every key is a display court.
C2_CheckOverlapIff ==
    \A c \in AllClients :
        (/\ CandidateComplete(c) /\ formData[c].courtId # ""
         /\ \A r \in bookings : r.display_court_id # NULL)
            => (CheckOverlapNow(c) <=> SpecConflict(c))

\* C3: in the overlap check the court key of a booking is its display court when
\* present and otherwise the court of its owning schedule.
C3_KeyIsScheduleCourt ==
    \A r \in bookings : BookingCourt(RowOut(r)) = ResolvedKey(r)

\* C4: a handleSubmit whose checkOverlap finds a conflict inserts nothing: the
\* bookings are unchanged, no insert is in flight, the conflict notification is
\* shown, the dialog stays open with no refetch (onSuccess is not called) and its
\* loading flag is false.
C4_ConflictBlocksInsert ==
    [][\A c \in AllClients :
          ((\E selectsEnforced \in BOOLEAN : SubmitForm(c, selectsEnforced, TRUE))
             /\ CheckOverlapNow(c))
          => /\ bookings' = bookings
             /\ pending'[c] = None
             /\ toast'[c] = "conflict"
             /\ selectedSlot'[c] = selectedSlot[c]
             /\ view'[c] = view[c] /\ fetching'[c] = fetching[c]
             /\ dlgLoading'[c] = FALSE]_vars

\* C4 witness: a conflict has just been reported to a client whose form is still open
C4_Witness ==
    \E c \in AllClients :
        /\ toast[c] = "conflict" /\ selectedSlot[c] # None
        /\ CheckOverlapNow(c) /\ bookings # {}

\* two persisted bookings of one schedule, one date and one display court (or both
\* with none) intersect
RacedPair(r1, r2) ==
    /\ r1.id # r2.id
    /\ r1.court_id = r2.court_id /\ r1.date = r2.date
    /\ r1.display_court_id = r2.display_court_id
    /\ Intersect(r1.start_time, r1.end_time, r2.start_time, r2.end_time)

\* the insert row conflicts with a persisted booking of its schedule, date and court
PendingConflicts(row) ==
    \E r \in bookings :
        /\ r.court_id = row.court_id /\ r.date = row.date
        /\ r.display_court_id = row.display_court_id
        /\ Intersect(ParseHms(row.start_time), ParseHms(row.end_time),
                     r.start_time, r.end_time)

\* C5: nothing stands between the overlap check and the insert: an insert that
\* passed its check is persisted when the store answers it, also when a conflicting
\* booking was persisted in between.
C5_InsertAfterCheckSucceeds ==
    [][\A c \in AllClients :
          (InsertDone(c, TRUE) /\ PgTimeAccepts(The(pending[c]).end_time)
             /\ PendingConflicts(The(pending[c])))
          => /\ toast'[c] = "created"
             /\ \E r \in bookings' : r.id = nextId /\ RowOut(r).end_time = The(pending[c]).end_time
             /\ \E r1 \in bookings' : \E r2 \in bookings' : RacedPair(r1, r2)]_vars

\* C5 witness: two conflicting bookings of two clients are persisted
C5_Witness == \E r1 \in bookings : \E r2 \in bookings : RacedPair(r1, r2)

\* C6: a proposed booking with an empty case number, no display court or no end
\* time never reaches the store.
C6_IncompleteNeverSent ==
    \A c \in AllClients : \A row \in pending[c] :
        /\ row.case_number # ""
        /\ row.display_court_id # NULL
        /\ row.end_time # WithSeconds(<< >>)

\* minutes from midnight as "HH:mm"
MinutesText(m) == TimeText(m \div 60, m % 60)

\* "HH:mm" as minutes from midnight
TextMinutes(text) == Number2(SubSeq(text, 1, 2)) * 60 + Number2(SubSeq(text, 4, 5))

\* C7: for a start slot s, getEndTimeOptions is exactly the slot boundaries t with
\* s < t <= 16:00, ascending in 15-minute steps (none for s = 16:00).
C7_EndTimeOptions ==
    fn.op = "getEndTimeOptions" =>
        /\ Len(fn.result) = (16 * 60 - TextMinutes(fn.startTime)) \div 15
        /\ \A i \in 1..Len(fn.result) :
               fn.result[i] = MinutesText(TextMinutes(fn.startTime) + 15 * i)

\* C7 witness: the options of the start slot 15:30 are 15:45 and 16:00
C7_Witness ==
    /\ fn.op = "getEndTimeOptions"
    /\ fn.startTime = TimeText(15, 30)
    /\ fn.result = << TimeText(15, 45), TimeText(16, 0) >>

\* C8: every persisted booking has start_time < end_time.
C8_StartBeforeEnd == \A r \in bookings : r.start_time < r.end_time

\* C8 witness: a booking has just been created through handleSubmit
C8_Witness == \E c \in AllClients : toast[c] = "created" /\ bookings # {}

\* a fraction num / den is a positive integer
IsPositiveInteger(q) == q.num > 0 /\ q.num % q.den = 0

\* C9: the span getBookingHeight computes for a persisted booking is a positive integer.
C9_SpanPositiveInteger ==
    \A r \in bookings : IsPositiveInteger(getBookingHeight(RowOut(r)))

\* C9 witness: a persisted booking spans two slots
C9_Witness ==
    \E r \in bookings : getBookingHeight(RowOut(r)).num = 2 * getBookingHeight(RowOut(r)).den

\* C10: the slot sequence starts at 09:00, goes on in 15-minute steps and ends at 16:00.
C10_SlotSequence ==
    fn.op = "timeSlots" =>
        /\ fn.result[1].time = TimeText(9, 0)
        /\ fn.result[Len(fn.result)].time = TimeText(16, 0)
        /\ \A i \in 1..Len(fn.result) :
               /\ fn.result[i].time = MinutesText(9 * 60 + 15 * (i - 1))
               /\ fn.result[i].hour * 60 + fn.result[i].minute = 9 * 60 + 15 * (i - 1)

\* C10 witness: the 29 slots have been generated
C10_Witness == fn.op = "timeSlots" /\ Len(fn.result) = 29

\* C11: a day of the displayed week is closed iff its weekday is Friday or Saturday or
\* some holiday record of the view has exactly that calendar date.
C11_ClosedIffWeekendOrHoliday ==
    fn.op = "isClosed" =>
        (fn.result <=> (\/ fn.date % 7 \in {5, 6}
                        \/ \E h \in view[1].holidays : h.date = DateText(fn.date)))

\* C12: clicking anything within a closed day is a no-op: neither selectedSlot nor
\* selectedBooking changes, also when a booking is persisted on that day.
C12_ClosedDayClickNoOp ==
    [][\A c \in AllClients :
          /\ \A date \in weekDays(weekStart[c]) : \A i \in 1..Len(timeSlots) :
                (ClickCell(c, date, timeSlots[i].time) /\ isClosed(c, date))
                    => /\ selectedSlot' = selectedSlot
                       /\ selectedBooking' = selectedBooking
          /\ \A b \in ViewBookings(c) :
                (ClickBookingCard(c, b) /\ isClosed(c, DayOfText(b.date)))
                    => /\ selectedSlot' = selectedSlot
                       /\ selectedBooking' = selectedBooking]_vars

\* a card anchored at or above the cell of that day and slot reaches over it
UnderCard(c, date, i) ==
    \E j \in 1..i : \E b \in CardAt(c, date, timeSlots[j].time) :
        ParseHms(b.end_time) > ParseHm(timeSlots[i].time)

\* C13: on an open day a click on a slot that no booking covers opens the creation
\* flow with selectedSlot set to the clicked date and time, and a click on a slot that
\* a booking covers opens the detail flow of a booking covering it and never the
\* creation flow.  Stated for the clicks that land on the cell, outside any card.
C13_OpenDayClick ==
    \A c \in AllClients : \A date \in weekDays(weekStart[c]) : \A i \in 1..Len(timeSlots) :
        (GridOpen(c) /\ ~ isClosed(c, date) /\ ~ UnderCard(c, date, i))
        => IF BookingsForSlot(c, date, timeSlots[i].time) = {}
           THEN ENABLED (/\ ClickCell(c, date, timeSlots[i].time)
                         /\ selectedSlot'[c] = Some([date |-> date, time |-> timeSlots[i].time])
                         /\ selectedBooking'[c] = None)
           ELSE ENABLED (/\ ClickCell(c, date, timeSlots[i].time)
                         /\ selectedBooking'[c] # None
                         /\ selectedBooking'[c] \subseteq BookingsForSlot(c, date, timeSlots[i].time)
                         /\ selectedSlot'[c] = None)

\* C14: every booking held in the view state for the displayed week is rendered
\* exactly once in the grid, at the slot equal to its start time.
C14_RenderedOnce ==
    \A c \in AllClients :
        (schedule[c] # None /\ ~ view[c].loading) =>
            \A b \in ViewBookings(c) :
                DayOfText(b.date) \in weekDays(weekStart[c]) =>
                    /\ Cardinality(CardCells(c, b)) = 1
                    /\ \A cell \in CardCells(c, b) :
                          /\ DateText(cell[1]) = b.date
                          /\ WithSeconds(timeSlots[cell[2]].time) = b.start_time

\* what a read of the bookings of that schedule and date returns from the rows
ReadBookings(rows, scheduleId, dateText) ==
    {RowOut(r) : r \in {x \in rows : x.court_id = scheduleId /\ x.date = dateText}}

\* the records of a read that carry the fields of the row
SameFields(read, row) ==
    {r \in read : /\ r.display_court_id = row.display_court_id
                  /\ r.date = row.date
                  /\ r.start_time = row.start_time
                  /\ r.end_time = row.end_time
                  /\ r.case_number = row.case_number}

RefIntegrity ==
    /\ \A r \in bookings : \E sch \in schedules : sch.id = r.court_id
    /\ \A sch \in schedules : \E ct \in courts : ct.id = sch.court_id

\* an admin's delete of the court removes its schedule and the bookings they own
DeleteCascades ==
    \A id \in {ct.id : ct \in courts} :
        handleDelete(1, id, TRUE)
            => /\ ~ \E ct \in courts' : ct.id = id
               /\ ~ \E sch \in schedules' : sch.court_id = id
               /\ \A r \in bookings :
                     (\E sch \in schedules : sch.id = r.court_id /\ sch.court_id = id)
                         => r \notin bookings'

\* C16: deleting a court removes its schedule and every booking owned by that
\* schedule; in every reachable state each persisted booking references an existing
\* schedule and each schedule an existing court.
C16_CourtDeleteCascades == [] RefIntegrity /\ [][DeleteCascades]_vars

\* C16 witness: court c1 was deleted after a booking of its schedule was created; its
\* schedule and the booking are gone
C16_Witness ==
    /\ toast[1] = "court_deleted"
    /\ nextId > 1 /\ bookings = {}
    /\ ~ \E ct \in courts : ct.id = "c1"
    /\ ~ \E sch \in schedules : sch.id = "s1"

\* the step is a delete (of a booking or of a court) by a caller holding the admin role
AdminDeletes ==
    \E c \in AllClients :
        /\ IsAdmin(c)
        /\ \/ handleDeleteBooking(c, TRUE)
           \/ \E id \in {ct.id : ct \in courts} : handleDelete(c, id, TRUE)

\* C17: any caller can insert a booking, but a booking is removed from the store only
\* by an action of a caller holding the admin role.
C17_OnlyAdminRemoves ==
    [][/\ (bookings \ bookings' # {}) => AdminDeletes
       /\ \A c \in AllClients :
             (InsertDone(c, TRUE) /\ InsertAccepted(The(pending[c])))
                 => \E r \in bookings' \ bookings : r.court_id = The(pending[c]).court_id]_vars

\* C17 witness: the caller without the admin role has asked to delete a booking it
\* sees, and no booking ever created is missing
C17_Witness ==
    /\ ~ IsAdmin(2) /\ toast[2] = "deleted"
    /\ \E r \in bookings : RowOut(r) \in ViewBookings(2)
    /\ nextId > 1 /\ Cardinality(bookings) = nextId - 1

\* C18: when a read of fetchData fails none of the three results is applied: bookings,
\* holidays and courts of the view state keep their values, the error notification is
\* shown and loading is false.
C18_FailedFetchKeepsView ==
    [][\A c \in AllClients : \A requested \in WeekStarts :
          FetchDone(c, requested, FALSE)
              => /\ view'[c].bookings = view[c].bookings
                 /\ view'[c].holidays = view[c].holidays
                 /\ view'[c].courts = view[c].courts
                 /\ view'[c].loading = FALSE
                 /\ toast'[c] = "load_failed"]_vars

\* C18 witness: a fetch has just failed on a view that holds a booking the store no
\* longer returns for the displayed week
C18_Witness ==
    /\ toast[1] = "load_failed" /\ ~ view[1].loading
    /\ \E b \in ViewBookings(1) : DayOfText(b.date) \notin weekDays(weekStart[1])

\* C19: a stale response does not overwrite newer state: once no fetch is in flight the
\* bookings and holidays of the view state are those of the current week.
C19_NoStaleView ==
    \A c \in AllClients :
        (schedule[c] # None /\ InFlight(c) = 0)
            => /\ \A b \in ViewBookings(c) : DayOfText(b.date) \in weekDays(weekStart[c])
               /\ \A h \in view[c].holidays : DayOfText(h.date) \in weekDays(weekStart[c])

\* C20: every store error returned to a read or a write is shown to the user as a
\* notification that carries the store's own error message.
C20_ErrorShownVerbatim ==
    [][\A c \in AllClients :
          (\/ \E requested \in WeekStarts : FetchDone(c, requested, FALSE)
           \/ \E selectsEnforced \in BOOLEAN : SubmitForm(c, selectsEnforced, FALSE)
           \/ InsertDone(c, FALSE)
           \/ handleDeleteBooking(c, FALSE))
              => toast'[c] = StoreErrorMessage]_vars


\* C21: a client with no session that enters /admin is sent to /auth by checkAuth and
\* is never shown the tabs; while the session check runs Admin shows the spinner only
\* and no tab has mounted or read anything
C21_NoSessionNoAdminContent ==
    /\ [](\A c \in AllClients :
            /\ role[c] = "none" => AdminRenders(c) # "tabs"
            /\ page[c] = "checking" => AdminRenders(c) = "spinner" /\ list[c].fetching = 0)
    /\ [][\A c \in AllClients :
            (checkAuth(c) /\ role[c] = "none") => page'[c] = "auth"]_vars

C21_Witness == \E c \in AllClients : role[c] = "none" /\ page[c] = "auth"

\* C22: no two schedules name the same court; an admin's insert of a schedule for a
\* court that already has one (its tab still offering the court) leaves the table as
\* it is and shows the store's error
C22_OneSchedulePerCourt ==
    /\ [](\A sch1, sch2 \in schedules : sch1.court_id = sch2.court_id => sch1 = sch2)
    /\ [][\A c \in AllClients :
            ((\E ok \in BOOLEAN : SchedulesTab_handleSubmit(c, "c1", ok))
             /\ \E sch \in schedules : sch.court_id = "c1")
                => (schedules' = schedules /\ toast'[c] = StoreErrorMessage)]_vars

C22_Witness ==
    \E c \in AllClients :
        /\ IsAdmin(c) /\ page[c] = "admin"
        /\ toast[c] = StoreErrorMessage
        /\ \E court \in availableCourts(c) : court.id = "c1"
        /\ \E sch \in schedules : sch.court_id = "c1" /\ sch.id = NewScheduleId(1)

\* the court an entry of the list of "/" stands for
EntryCourt(c, entry) == IF page[c] = "index" THEN entry.court_id ELSE entry.id

\* C23: the list either version of "/" reads holds no entry whose court has
\* is_active = false
C23_ListedCourtsActive ==
    [][\A c \in AllClients :
         (\E ok \in BOOLEAN : fetchSchedules(c, ok) \/ fetchCourts(c, ok))
            => \A entry \in list'[c].entries : EntryCourt(c, entry) \notin inactive]_vars


\* C24: the displayed week starts on a Sunday and weekDays is its seven consecutive
\* days; Next moves it seven days on and Previous seven days back, so Next then
\* Previous shows the same week again; an answered fetchData holds exactly the
\* schedule's bookings and the holidays dated from the requested week's Sunday to its
\* Saturday
C24_SundayWeek ==
    /\ [](\A c \in AllClients :
            schedule[c] # None =>
                /\ weekStart[c] % 7 = 0
                /\ isWeekend(weekStart[c] + 5) /\ isWeekend(weekStart[c] + 6)
                /\ Cardinality(weekDays(weekStart[c])) = 7
                /\ \A d \in weekDays(weekStart[c]) :
                      d = weekStart[c] \/ d - 1 \in weekDays(weekStart[c]))
    /\ [][\A c \in AllClients :
            /\ NextWeek(c) => weekStart'[c] - 7 = weekStart[c]
            /\ PreviousWeek(c) => weekStart'[c] + 7 = weekStart[c]
            /\ \A requested \in WeekStarts :
                  FetchDone(c, requested, TRUE) =>
                      /\ {view'[c].bookings[i] : i \in DOMAIN view'[c].bookings}
                            = {RowOut(r) : r \in {x \in bookings :
                                  /\ x.court_id = The(schedule[c]).id
                                  /\ \E i \in 0..6 : DayOfText(x.date) = requested + i}}
                      /\ view'[c].holidays
                            = {h \in holidays :
                                  \E i \in 0..6 : DayOfText(h.date) = requested + i}]_vars

C24_Witness ==
    /\ weekStart[1] = 7 /\ ~ view[1].loading /\ InFlight(1) = 0
    /\ view[1].bookings # << >>
    /\ \E r \in bookings : DayOfText(r.date) < 7

\* the minute of the day of a stored time "HH:mm:ss"
StoredMinutes(text) == TextMinutes(Substring5(text))

\* the booking is on that day and its interval [start, end) holds the slot's time
SpecCovers(b, date, i) ==
    /\ b.date = DateText(date)
    /\ StoredMinutes(b.start_time) <= TextMinutes(SlotTimes[i])
    /\ TextMinutes(SlotTimes[i]) < StoredMinutes(b.end_time)

\* C25: getBookingForSlot(date, time) returns a booking iff some booking of the view
\* has that date and start_time <= time < end_time, and then it returns such a
\* booking; the slot at a booking's end time is not covered by it; a booking covers
\* exactly (end - start) / 15 slots, and they are consecutive
C25_SlotCoverage ==
    \A c \in AllClients : \A date \in weekDays(weekStart[c]) :
        /\ \A i \in 1..Len(SlotTimes) :
              LET found == getBookingForSlot(c, date, SlotTimes[i])
              IN  /\ found # None <=> \E b \in ViewBookings(c) : SpecCovers(b, date, i)
                  /\ found # None =>
                        The(found) \in ViewBookings(c) /\ SpecCovers(The(found), date, i)
        /\ \A b \in ViewBookings(c) :
              b.date = DateText(date) =>
                  LET covered == {i \in 1..Len(SlotTimes) : CoversSlot(b, date, SlotTimes[i])}
                  IN  /\ 15 * Cardinality(covered)
                            = StoredMinutes(b.end_time) - StoredMinutes(b.start_time)
                      /\ \A i \in covered : SlotTimes[i] # Substring5(b.end_time)
                      /\ \A i \in covered :
                            Substring5(b.start_time) = SlotTimes[i] \/ i - 1 \in covered

\* a booking of two slots is shown, and the slot at its end time is free
C25_Witness ==
    \E b \in ViewBookings(1), i \in 1..Len(SlotTimes) :
        /\ getBookingHeight(b).num = 2 * getBookingHeight(b).den
        /\ SlotTimes[i] = Substring5(b.end_time)
        /\ getBookingForSlot(1, DayOfText(b.date), SlotTimes[i]) = None
        /\ getBookingForSlot(1, DayOfText(b.date), SlotTimes[i - 1]) = Some(b)

\* C26: a persisted booking is never changed in place: as long as a row with its id
\* is in the table, every field of it is what was stored at creation, and a step
\* adds rows under new ids only
C26_BookingsImmutable ==
    [][/\ \A r \in bookings : \A r2 \in bookings' : r2.id = r.id => r2 = r
       /\ \A r2 \in bookings' \ bookings : r2.id = nextId /\ nextId' = nextId + 1]_vars

\* a booking has stayed in the table while another was created and deleted
C26_Witness == Cardinality(bookings) = 1 /\ nextId = 3 /\ \E r \in bookings : r.id = 1

\* C27: handleDeleteBooking shows the success message only when the booking is gone
\* from the table; when the delete removes no row the detail dialog stays open
C27_DeleteSuccessIsReal ==
    [][\A c \in AllClients :
         (selectedBooking[c] # None /\ \E ok \in BOOLEAN : handleDeleteBooking(c, ok))
            => /\ toast'[c] = "deleted"
                    => ~ \E r \in bookings' : r.id = The(selectedBooking[c]).id
               /\ (\E r \in bookings' : r.id = The(selectedBooking[c]).id)
                    => selectedBooking'[c] = selectedBooking[c]]_vars

\* C28: the schedule handed to WeeklyScheduler and BookingDialog, and the court_id of a
\* row sent to bookings, is the id of a row of court_schedules, in either version of
\* the page "/"
C28_ScheduleIdExists ==
    \A c \in AllClients :
        /\ schedule[c] # None => \E sch \in schedules : sch.id = The(schedule[c]).id
        /\ pending[c] # None => \E sch \in schedules : sch.id = The(pending[c]).court_id

\* C29: while the calendar is mounted, loading is true exactly while a fetchData is in
\* flight: with overlapping fetches the grid is not shown as loaded before the last
\* of them is answered
C29_LoadingWhileInFlight ==
    \A c \in AllClients : schedule[c] # None => (view[c].loading <=> InFlight(c) > 0)

\* C30: deleting a court removes no booking but those owned by the schedule of that
\* court: a booking of another schedule that names the deleted court as its display
\* court stays in the table
C30_DeleteKeepsOtherSchedules ==
    [][\A c \in AllClients : \A id \in {ct.id : ct \in courts} :
         handleDelete(c, id, TRUE)
            => \A r \in bookings :
                  (\E sch \in schedules : sch.id = r.court_id /\ sch.court_id # id)
                     => r \in bookings']_vars
=============================================================================
